---- MODULE Spec2Model ----
(***************************************************************************)
(* ScriptRunner (lib/streamlit/ScriptRunner.py): one controller thread     *)
(* issuing request_rerun / request_stop / request_pause_unpause and the    *)
(* file-change callback, and the script threads it spawns, interleaved at  *)
(* the granularity of the Python statements of the source.                 *)
(***************************************************************************)
EXTENDS Integers, Sequences, FiniteSets, TLC

\* ---- bounds ----
MaxRequests == 3      \* controller calls issued in one behaviour
MaxWorkers == 2       \* script threads alive at the same time
ScriptLen == 2        \* statements (traced lines) of the script body
MaxArgv == 2          \* distinct argument vectors a controller may pass
MaxBody == 4          \* top-level statements of a script given to the rewriter

\* ---- class State (lines 23-30) ----
INITIAL == "INITIAL"
RUNNING == "RUNNING"
STOP_REQUESTED == "STOP_REQUESTED"
RERUN_REQUESTED == "RERUN_REQUESTED"
PAUSE_REQUESTED == "PAUSE_REQUESTED"
PAUSED == "PAUSED"
STOPPED == "STOPPED"
State == {INITIAL, RUNNING, STOP_REQUESTED, RERUN_REQUESTED, PAUSE_REQUESTED,
          PAUSED, STOPPED}

\* Thread 0 is the controller; the others are the slots of script threads.
\* A slot whose thread has ended is taken again by the next spawn.
Controller == 0
Workers == 1..MaxWorkers
Threads == {Controller} \cup Workers
Argvs == 1..MaxArgv

VARIABLES
    state,        \* self._state
    paused,       \* self._paused (threading.Event)
    scr,          \* self._state_change_requested (threading.Event)
    argv,         \* self._report.argv
    run_on_save,  \* self.run_on_save, read once in __init__
    notified,     \* the state last sent on on_state_changed
    notHandled,   \* number of on_file_change_not_handled events sent
    reqs,         \* controller calls issued so far
    th,           \* per thread: position and locals
    tree,         \* tree.body of a script handed to _modify_ast: statement kinds
    out           \* tree.body as _modify_ast returned it; <<>> before the call

vars == <<state, paused, scr, argv, run_on_save, notified, notHandled, reqs, th,
          tree, out>>

\* A thread that does not exist yet / the controller between two calls.
Fresh == [pc |-> "none", new |-> INITIAL, found |-> INITIAL, ret |-> "none",
          cpRet |-> "none",
          cpDone |-> FALSE, traced |-> FALSE, rerun |-> FALSE, exc |-> "none",
          ip |-> 1, ran |-> <<>>, sysargv |-> 0, failed |-> FALSE,
          reported |-> FALSE, passes |-> 0]

\* is_fully_stopped (lines 89-90)
is_fully_stopped == state \in {INITIAL, STOPPED}

\* is_running (lines 86-87)
is_running == state = RUNNING

\* __init__ (lines 35-67): _set_state(INITIAL) sends the first notification;
\* both events start cleared; no script thread exists.
Init ==
    /\ state = INITIAL
    /\ paused = FALSE
    /\ scr = FALSE
    /\ argv \in Argvs
    /\ run_on_save \in BOOLEAN
    /\ notified = INITIAL
    /\ notHandled = 0
    /\ reqs = 0
    /\ th = [t \in Threads |-> IF t = Controller THEN [Fresh EXCEPT !.pc = "idle"]
                                                 ELSE Fresh]
    /\ tree = <<>>
    /\ out = <<>>


\* ---- helpers over one thread's record ----
Alive(r) == r.pc \notin {"none", "done", "died"}

\* The thread has ended: normally (pc "done") or by the exception exc that
\* nothing caught (pc "died"). Only how it ended is kept of it.
Ended(r, pc, exc) == [Fresh EXCEPT !.pc = pc, !.exc = exc, !.failed = r.failed,
                                   !.reported = r.reported]

\* A call of self._set_state(new) that returns to position ret.
Call_set_state(r, new, ret) == [r EXCEPT !.pc = "ss_cmp", !.new = new, !.ret = ret]

\* _install_tracer (lines 117-126): once sys.settrace(trace_calls) has run in
\* a thread, every Python frame that thread enters afterwards calls
\* trace_calls on entry and before each of its lines; trace_calls is not
\* re-entered while it runs. These are the positions of _run where that
\* happens: the lines of the exec'ed script (189), the call of st.exception
\* (199), and the lines of _set_state when called from the finally (204).
TracedSites == {"exec", "report", "ss_cmp", "ss_write", "ss_send"}

NeedsCp(r) == r.traced /\ r.cpRet = "none" /\ ~r.cpDone /\ r.pc \in TracedSites

Ready(t) == ~NeedsCp(th[t])

\* trace_calls returned normally: the traced line now executes.
CpReturn(r) == [r EXCEPT !.pc = r.cpRet, !.cpRet = "none", !.cpDone = TRUE]

\* trace_calls raised sig ("Stop" / "Rerun"). The interpreter unsets the trace
\* function and raises sig at the traced position. Inside exec (line 189) the
\* handlers of lines 191-195 catch it; inside the except handler (line 199)
\* it propagates after the finally has run; inside the finally (line 204) it
\* ends the thread at once. The finally calls _set_state(STOPPED).
Raise(r, sig) ==
    LET base == [r EXCEPT !.traced = FALSE, !.cpRet = "none", !.cpDone = FALSE]
    IN  IF r.cpRet = "exec"
          THEN Call_set_state([base EXCEPT !.rerun = (sig = "Rerun")], STOPPED, "after")
        ELSE IF r.cpRet = "report"
          THEN Call_set_state([base EXCEPT !.exc = sig], STOPPED, "after")
        ELSE Ended(r, "died", sig)

\* ---- _set_state (lines 69-75), three steps of the calling thread ----
\* The call made by _pause (line 211) runs inside trace_calls, on top of
\* whatever call of _set_state the thread was tracing: it has its own
\* positions (pss_*), its argument is PAUSED and it returns into line 213.
SsInner(r) == r.pc \in {"pss_cmp", "pss_write", "pss_send"}
SsNew(r) == IF SsInner(r) THEN PAUSED ELSE r.new
SsRet(r) == IF SsInner(r) THEN "pause_wait" ELSE r.ret

\* line 70
SetStateCmp(t) ==
    /\ th[t].pc \in {"ss_cmp", "pss_cmp"} /\ Ready(t)
    /\ th' = [th EXCEPT ![t].pc = IF state = SsNew(th[t]) THEN SsRet(th[t])
                                  ELSE IF SsInner(th[t]) THEN "pss_write"
                                  ELSE "ss_write",
                        ![t].cpDone = FALSE]
    /\ UNCHANGED <<state, paused, scr, argv, run_on_save, notified, notHandled, reqs, tree, out>>

\* line 74
SetStateWrite(t) ==
    /\ th[t].pc \in {"ss_write", "pss_write"} /\ Ready(t)
    /\ state' = SsNew(th[t])
    /\ th' = [th EXCEPT ![t].pc = IF SsInner(th[t]) THEN "pss_send" ELSE "ss_send",
                        ![t].cpDone = FALSE]
    /\ UNCHANGED <<paused, scr, argv, run_on_save, notified, notHandled, reqs, tree, out>>

\* line 75 sends self._state as it is when the line runs
SetStateSend(t) ==
    /\ th[t].pc \in {"ss_send", "pss_send"} /\ Ready(t)
    /\ notified' = state
    /\ th' = [th EXCEPT ![t].pc = SsRet(th[t]), ![t].cpDone = FALSE]
    /\ UNCHANGED <<state, paused, scr, argv, run_on_save, notHandled, reqs, tree, out>>

\* ---- controller calls ----
CanCall == th[Controller].pc = "idle" /\ reqs < MaxRequests

FreeSlot(w) == th[w].pc \in {"none", "done", "died"}
CanSpawn == \E w \in Workers : FreeSlot(w)

\* spawn_script_thread (lines 77-84): the next thread starts at _run
NextWorker == CHOOSE w \in Workers :
                 FreeSlot(w) /\ \A v \in Workers : v < w => ~FreeSlot(v)

spawn_script_thread(r) ==
    [th EXCEPT ![Controller] = r, ![NextWorker] = [Fresh EXCEPT !.pc = "start"]]

\* request_rerun, line 93
request_rerun(a) ==
    /\ CanCall /\ CanSpawn
    /\ argv' = a
    /\ reqs' = reqs + 1
    /\ th' = [th EXCEPT ![Controller].pc = "rr_check"]
    /\ UNCHANGED <<state, paused, scr, run_on_save, notified, notHandled, tree, out>>

\* request_rerun, lines 95-98; found is the state the test of line 95 read,
\* kept with the controller until its next request that is not a no-op
RerunCheck ==
    /\ th[Controller].pc = "rr_check"
    /\ th' = IF is_fully_stopped
               THEN spawn_script_thread([th[Controller] EXCEPT !.pc = "idle"])
               ELSE [th EXCEPT ![Controller] =
                        Call_set_state([th[Controller] EXCEPT !.found = state],
                                       RERUN_REQUESTED, "rr_clear")]
    /\ UNCHANGED <<state, paused, scr, argv, run_on_save, notified, notHandled, reqs, tree, out>>

\* request_rerun, line 99
RerunClear ==
    /\ th[Controller].pc = "rr_clear"
    /\ paused' = FALSE
    /\ th' = [th EXCEPT ![Controller].pc = "rr_set"]
    /\ UNCHANGED <<state, scr, argv, run_on_save, notified, notHandled, reqs, tree, out>>

\* request_rerun, line 100
RerunSet ==
    /\ th[Controller].pc = "rr_set"
    /\ scr' = TRUE
    /\ th' = [th EXCEPT ![Controller].pc = "idle"]
    /\ UNCHANGED <<state, paused, argv, run_on_save, notified, notHandled, reqs, tree, out>>

\* request_stop without the is_fully_stopped test of line 103
request_stop_unguarded ==
    /\ CanCall
    /\ reqs' = reqs + 1
    /\ th' = [th EXCEPT ![Controller] =
                 Call_set_state(th[Controller], STOP_REQUESTED, "rs_clear")]
    /\ UNCHANGED <<state, paused, scr, argv, run_on_save, notified, notHandled, tree, out>>

\* request_stop, lines 102-106
request_stop ==
    /\ CanCall
    /\ reqs' = reqs + 1
    /\ th' = [th EXCEPT ![Controller] =
                 IF is_fully_stopped
                   THEN th[Controller]
                   ELSE Call_set_state([th[Controller] EXCEPT !.found = state],
                                       STOP_REQUESTED, "rs_clear")]
    /\ UNCHANGED <<state, paused, scr, argv, run_on_save, notified, notHandled, tree, out>>

\* request_stop, line 107
StopClear ==
    /\ th[Controller].pc = "rs_clear"
    /\ paused' = FALSE
    /\ th' = [th EXCEPT ![Controller].pc = "rs_set"]
    /\ UNCHANGED <<state, scr, argv, run_on_save, notified, notHandled, reqs, tree, out>>

\* request_stop, line 108
StopSet ==
    /\ th[Controller].pc = "rs_set"
    /\ scr' = TRUE
    /\ th' = [th EXCEPT ![Controller].pc = "idle"]
    /\ UNCHANGED <<state, paused, argv, run_on_save, notified, notHandled, reqs, tree, out>>

\* request_pause_unpause, lines 110-115
request_pause_unpause ==
    /\ CanCall
    /\ reqs' = reqs + 1
    /\ th' = [th EXCEPT ![Controller] =
                 IF state = PAUSED
                   THEN Call_set_state([th[Controller] EXCEPT !.found = state],
                                       RUNNING, "pu_clear")
                   ELSE [th[Controller] EXCEPT !.pc = "rp_check"]]
    /\ UNCHANGED <<state, paused, scr, argv, run_on_save, notified, notHandled, tree, out>>

\* request_pause_unpause, line 113
UnpauseClear ==
    /\ th[Controller].pc = "pu_clear"
    /\ paused' = FALSE
    /\ th' = [th EXCEPT ![Controller].pc = "idle"]
    /\ UNCHANGED <<state, scr, argv, run_on_save, notified, notHandled, reqs, tree, out>>

\* _request_pause, lines 216-220
_request_pause ==
    /\ th[Controller].pc = "rp_check"
    /\ th' = [th EXCEPT ![Controller] =
                 IF is_fully_stopped
                   THEN [th[Controller] EXCEPT !.pc = "idle"]
                   ELSE Call_set_state([th[Controller] EXCEPT !.found = state],
                                       PAUSE_REQUESTED, "rp_set")]
    /\ UNCHANGED <<state, paused, scr, argv, run_on_save, notified, notHandled, reqs, tree, out>>

\* _request_pause, line 221
RequestPauseSet ==
    /\ th[Controller].pc = "rp_set"
    /\ scr' = TRUE
    /\ th' = [th EXCEPT ![Controller].pc = "idle"]
    /\ UNCHANGED <<state, paused, argv, run_on_save, notified, notHandled, reqs, tree, out>>

\* maybe_handle_file_changed with the send of line 240 outside the else
maybe_handle_file_changed_no_else ==
    /\ CanCall /\ (run_on_save => CanSpawn)
    /\ reqs' = reqs + 1
    /\ notHandled' = notHandled + 1
    /\ th' = IF run_on_save THEN [th EXCEPT ![Controller].pc = "rr_check"] ELSE th
    /\ UNCHANGED <<state, paused, scr, argv, run_on_save, notified, tree, out>>

\* maybe_handle_file_changed (lines 236-240)
maybe_handle_file_changed ==
    /\ CanCall /\ (run_on_save => CanSpawn)
    /\ reqs' = reqs + 1
    /\ IF run_on_save
         THEN /\ th' = [th EXCEPT ![Controller].pc = "rr_check"]
              /\ UNCHANGED notHandled
         ELSE /\ notHandled' = notHandled + 1
              /\ UNCHANGED th
    /\ UNCHANGED <<state, paused, scr, argv, run_on_save, notified, tree, out>>


\* ---- the script thread: _run (lines 128-207) ----
\* _run without the test of lines 133-135
RunEnter_unchecked(w) ==
    /\ th[w].pc = "start"
    /\ th' = [th EXCEPT ![w].pc = "clear"]
    /\ UNCHANGED <<state, paused, scr, argv, run_on_save, notified, notHandled, reqs, tree, out>>

\* lines 133-135
RunEnter(w) ==
    /\ th[w].pc = "start"
    /\ th' = [th EXCEPT ![w] = IF is_fully_stopped
                                 THEN [@ EXCEPT !.pc = "clear"]
                                 ELSE Ended(@, "died", "Runtime")]
    /\ UNCHANGED <<state, paused, scr, argv, run_on_save, notified, notHandled, reqs, tree, out>>

\* lines 141-142: the event is cleared and _set_state(RUNNING) is called
RunClear(w) ==
    /\ th[w].pc = "clear"
    /\ scr' = FALSE
    /\ th' = [th EXCEPT ![w] = Call_set_state(@, RUNNING, "load")]
    /\ UNCHANGED <<state, paused, argv, run_on_save, notified, notHandled, reqs, tree, out>>

\* lines 147-188, up to the read of self._report.argv. Lines 147-151 are
\* outside the try block: open() of a missing or unreadable file raises, and
\* when runner.autoWrite is set ast.parse raises on malformed source; either
\* ends the thread. Lines 153-154 install the tracer when runner.installTracer
\* is set. A SyntaxError of compile (161-173) goes to the handler of line 197.
RunLoad(w) ==
    /\ th[w].pc = "load"
    /\ \E readable, autoWrite, parses, installTracer, compiles \in BOOLEAN :
          th' = [th EXCEPT ![w] =
                    IF ~(readable /\ (autoWrite => parses))
                      THEN Ended([@ EXCEPT !.failed = TRUE], "died", "Error")
                    ELSE IF ~compiles
                      THEN [@ EXCEPT !.pc = "report", !.failed = TRUE,
                                     !.traced = installTracer]
                    ELSE [@ EXCEPT !.pc = "exec", !.traced = installTracer,
                                   !.sysargv = argv]]
    /\ UNCHANGED <<state, paused, scr, argv, run_on_save, notified, notHandled, reqs, tree, out>>

\* line 189: one statement of the script runs, or raises
ExecStmt(w) ==
    /\ th[w].pc = "exec" /\ th[w].ip <= ScriptLen /\ Ready(w)
    /\ \E raises \in BOOLEAN :
          th' = [th EXCEPT ![w] =
                    IF raises
                      THEN [@ EXCEPT !.pc = "report", !.failed = TRUE, !.cpDone = FALSE]
                      ELSE [@ EXCEPT !.ran = Append(@, th[w].ip), !.ip = @ + 1,
                                     !.cpDone = FALSE]]
    /\ UNCHANGED <<state, paused, scr, argv, run_on_save, notified, notHandled, reqs, tree, out>>

\* line 189: the script's frame returns; the finally (203-204) follows
ExecReturn(w) ==
    /\ th[w].pc = "exec" /\ th[w].ip = ScriptLen + 1 /\ Ready(w)
    /\ th' = [th EXCEPT ![w] = Call_set_state([@ EXCEPT !.cpDone = FALSE],
                                              STOPPED, "after")]
    /\ UNCHANGED <<state, paused, scr, argv, run_on_save, notified, notHandled, reqs, tree, out>>

\* lines 197-199: st.exception(e); the finally (203-204) follows
RunReport(w) ==
    /\ th[w].pc = "report" /\ Ready(w)
    /\ th' = [th EXCEPT ![w] = Call_set_state([@ EXCEPT !.reported = TRUE,
                                                        !.cpDone = FALSE],
                                              STOPPED, "after")]
    /\ UNCHANGED <<state, paused, scr, argv, run_on_save, notified, notHandled, reqs, tree, out>>

\* lines 206-207, or the exception the finally was entered with goes on
RunAfter(w) ==
    /\ th[w].pc = "after"
    /\ th' = [th EXCEPT ![w] =
                 IF th[w].exc # "none" THEN Ended(@, "died", th[w].exc)
                 ELSE IF th[w].rerun
                   THEN [@ EXCEPT !.pc = "start", !.rerun = FALSE, !.ip = 1,
                                  !.ran = <<>>, !.sysargv = 0, !.passes = @ + 1]
                 ELSE Ended(@, "done", "none")]
    /\ UNCHANGED <<state, paused, scr, argv, run_on_save, notified, notHandled, reqs, tree, out>>

\* ---- maybe_handle_execution_control_request (lines 224-234) ----
\* line 225 followed by self._state_change_requested.clear()
CpFlag_clearing(w) ==
    /\ NeedsCp(th[w])
    /\ scr' = FALSE
    /\ th' = [th EXCEPT ![w] = IF scr THEN [@ EXCEPT !.cpRet = th[w].pc, !.pc = "cp_stop"]
                               ELSE [@ EXCEPT !.cpDone = TRUE]]
    /\ UNCHANGED <<state, paused, argv, run_on_save, notified, notHandled, reqs, tree, out>>

\* line 225, entered from trace_calls
CpFlag(w) ==
    /\ NeedsCp(th[w])
    /\ th' = [th EXCEPT ![w] = IF scr THEN [@ EXCEPT !.cpRet = th[w].pc, !.pc = "cp_stop"]
                               ELSE [@ EXCEPT !.cpDone = TRUE]]
    /\ UNCHANGED <<state, paused, scr, argv, run_on_save, notified, notHandled, reqs, tree, out>>

\* lines 228-229
CpStop(w) ==
    /\ th[w].pc = "cp_stop"
    /\ th' = [th EXCEPT ![w] = IF state = STOP_REQUESTED THEN Raise(@, "Stop")
                               ELSE [@ EXCEPT !.pc = "cp_rerun"]]
    /\ UNCHANGED <<state, paused, scr, argv, run_on_save, notified, notHandled, reqs, tree, out>>

\* lines 230-231
CpRerun(w) ==
    /\ th[w].pc = "cp_rerun"
    /\ th' = [th EXCEPT ![w] = IF state = RERUN_REQUESTED THEN Raise(@, "Rerun")
                               ELSE [@ EXCEPT !.pc = "cp_pause"]]
    /\ UNCHANGED <<state, paused, scr, argv, run_on_save, notified, notHandled, reqs, tree, out>>

\* lines 232-234 with a bare else in place of the test of line 232
CpPause_else(w) ==
    /\ th[w].pc = "cp_pause"
    /\ th' = [th EXCEPT ![w].pc = "pause_set"]
    /\ UNCHANGED <<state, paused, scr, argv, run_on_save, notified, notHandled, reqs, tree, out>>

\* lines 232-234
CpPause(w) ==
    /\ th[w].pc = "cp_pause"
    /\ th' = [th EXCEPT ![w] = IF state = PAUSE_REQUESTED THEN [@ EXCEPT !.pc = "pause_set"]
                               ELSE CpReturn(@)]
    /\ UNCHANGED <<state, paused, scr, argv, run_on_save, notified, notHandled, reqs, tree, out>>

\* ---- _pause (lines 209-214) ----
\* lines 210-211
PauseSet(w) ==
    /\ th[w].pc = "pause_set"
    /\ paused' = TRUE
    /\ th' = [th EXCEPT ![w].pc = "pss_cmp"]
    /\ UNCHANGED <<state, scr, argv, run_on_save, notified, notHandled, reqs, tree, out>>

\* lines 213-214: the loop ends once the event is clear
PauseWait(w) ==
    /\ th[w].pc = "pause_wait"
    /\ ~paused
    /\ th' = [th EXCEPT ![w] = CpReturn(@)]
    /\ UNCHANGED <<state, paused, scr, argv, run_on_save, notified, notHandled, reqs, tree, out>>

ControllerStep ==
    \/ \E a \in Argvs : request_rerun(a)
    \/ RerunCheck
    \/ RerunClear
    \/ RerunSet
    \/ request_stop
    \/ StopClear
    \/ StopSet
    \/ request_pause_unpause
    \/ UnpauseClear
    \/ _request_pause
    \/ RequestPauseSet
    \/ maybe_handle_file_changed
    \/ SetStateCmp(Controller)
    \/ SetStateWrite(Controller)
    \/ SetStateSend(Controller)

WorkerStep(w) ==
    \/ RunEnter(w)
    \/ RunClear(w)
    \/ SetStateCmp(w)
    \/ SetStateWrite(w)
    \/ SetStateSend(w)
    \/ RunLoad(w)
    \/ ExecStmt(w)
    \/ ExecReturn(w)
    \/ RunReport(w)
    \/ RunAfter(w)
    \/ CpFlag(w)
    \/ CpStop(w)
    \/ CpRerun(w)
    \/ CpPause(w)
    \/ PauseSet(w)
    \/ PauseWait(w)

Next ==
    \/ ControllerStep
    \/ \E w \in Workers : WorkerStep(w)

Spec == Init /\ [][Next]_vars

\* ---- the rewriter: _modify_ast (lines 258-290) on a root tree ----
\* The kinds of top-level statement the rewriter tells apart: an expression
\* statement whose value is a string (a docstring when it comes first), an
\* import (ast.Import / ast.ImportFrom), the statement _build_st_import_statement
\* returns (an ast.Import too), an expression statement whose value has been
\* replaced by a call of _transparent_write, and anything else.
StmtKinds == {"str", "import", "other"}
Trees == UNION {[1..n -> StmtKinds] : n \in 0..MaxBody}

\* _build_st_import_statement (lines 319-326)
_build_st_import_statement == "st_import"

\* type(node) in (ast.ImportFrom, ast.Import), lines 300 and 312
IsImport(node) == node \in {"import", "st_import"}
\* type(node) is ast.Expr and type(node.value) is ast.Str, lines 309-310
IsStr(node) == node = "str"

\* list.insert(i, x): x comes to stand at index i (counted from 0)
Insert(body, i, x) ==
    LET j == IF i > Len(body) THEN Len(body) ELSE i
    IN  SubSeq(body, 1, j) \o <<x>> \o SubSeq(body, j + 1, Len(body))

\* _insert_import_statement (lines 293-316); body[1] is tree.body[0]
_insert_import_statement(body) ==
    IF Len(body) > 0 /\ IsImport(body[1])
      THEN Insert(body, 1, _build_st_import_statement)
    ELSE IF Len(body) > 1 /\ IsStr(body[1]) /\ IsImport(body[2])
      THEN Insert(body, 2, _build_st_import_statement)
    ELSE Insert(body, 0, _build_st_import_statement)

\* The loop of lines 266-282 as far as the kinds go: a string expression that
\* is not the first statement gets its value wrapped (lines 350-352, 364-366).
WriteWrapped(body) ==
    [i \in 1..Len(body) |-> IF IsStr(body[i]) /\ i > 1 THEN "write" ELSE body[i]]

\* _modify_ast(tree, is_root=True), lines 258-290
_modify_ast ==
    /\ out = <<>>
    /\ out' = _insert_import_statement(WriteWrapped(tree))
    /\ UNCHANGED <<state, paused, scr, argv, run_on_save, notified, notHandled,
                   reqs, th, tree>>

\* The rewriter alone, on every script of at most MaxBody statements.
InitRewriter ==
    /\ tree \in Trees
    /\ out = <<>>
    /\ state = INITIAL /\ paused = FALSE /\ scr = FALSE
    /\ argv = 1 /\ run_on_save = FALSE
    /\ notified = INITIAL /\ notHandled = 0 /\ reqs = 0
    /\ th = [t \in Threads |-> IF t = Controller THEN [Fresh EXCEPT !.pc = "idle"]
                                                 ELSE Fresh]

NextRewriter == _modify_ast

SpecRewriter == InitRewriter /\ [][NextRewriter]_vars

\* ---- predicates used by the properties ----
NoWorkerAlive == \A w \in Workers : ~Alive(th[w])
ControllerIdle == th[Controller].pc = "idle"
\* Past the check of lines 133-135 and not yet ended.
InRun(w) == Alive(th[w]) /\ th[w].pc # "start"
\* No run so far failed to load, compile or execute its script.
NoRunFailed == \A w \in Workers : ~th[w].failed
\* The step sends a notification (line 75).
Sends(t) == th[t].pc \in {"ss_send", "pss_send"} /\ th'[t] # th[t]

\* C1: at most one script thread at a time is past the fully-stopped check
\* of _run and not yet ended.
C1_AtMostOneWorker == Cardinality({w \in Workers : InRun(w)}) <= 1

\* C2: a stop requested while not fully stopped ends in STOPPED with no
\* worker alive; so, the scripts having run without failure, the run never
\* ends (no worker alive, controller call complete) with the state still
\* STOP_REQUESTED.
C2_StopEndsStopped ==
    (NoWorkerAlive /\ ControllerIdle /\ NoRunFailed) => state # STOP_REQUESTED

\* C3: whenever the state is not INITIAL and not STOPPED, a script thread is
\* alive or about to start.
C3_ActiveStateHasWorker == ~is_fully_stopped => \E w \in Workers : Alive(th[w])

\* C4: after a single request_rerun issued while fully stopped, and no
\* further request, the spawned thread's run ends with the state STOPPED.
C4_RerunEndsStopped ==
    (reqs = 1 /\ ControllerIdle /\ NoWorkerAlive /\ th[1].pc \in {"done", "died"})
        => state = STOPPED

\* C5: the checkpoint that finds a rerun requested ends the pass and sends
\* the thread through STOPPED to a restart of the script body: the signal is
\* caught (rerun = True), nothing is left to propagate, and the thread goes on
\* to the finally and line 207.
C5_RerunRestartsPass ==
    [][\A w \in Workers :
          (CpRerun(w) /\ state = RERUN_REQUESTED /\ ~th[w].failed)
              => (th'[w].pc = "ss_cmp" /\ th'[w].new = STOPPED /\ th'[w].rerun
                  /\ th'[w].exc = "none" /\ th'[w].ran = th[w].ran)]_vars

\* C6: once request_pause_unpause has completed with the state
\* PAUSE_REQUESTED, the next checkpoint of a worker executing the script finds
\* the state-change flag set, so that it pauses there.
C6_PauseSeenAtNextCheckpoint ==
    (/\ state = PAUSE_REQUESTED /\ ControllerIdle
     /\ \E w \in Workers : th[w].pc = "exec" /\ NeedsCp(th[w]))
        => scr

\* C7: a run that failed, other than by a Stop/Rerun signal, has reported
\* the failure to the output sink by the time its thread ends.
C7_FailureReported ==
    \A w \in Workers : (th[w].pc \in {"done", "died"} /\ th[w].failed) => th[w].reported

\* C8: no two consecutive on_state_changed notifications carry the same
\* state.
C8_NoRepeatedNotification ==
    [][\A t \in Threads : Sends(t) => state # notified]_vars

\* C9: when a checkpoint has acted on a stop request by raising Stop, the
\* notification of STOP_REQUESTED is followed by one of STOPPED: the run does
\* not end with STOP_REQUESTED as the last notification.
C9_StopNotifiedThenStopped ==
    (NoWorkerAlive /\ ControllerIdle /\ NoRunFailed
       /\ \E w \in Workers : th[w].pc = "died" /\ th[w].exc = "Stop")
        => notified # STOP_REQUESTED

\* C10: while the state is INITIAL or STOPPED, request_stop and
\* request_pause_unpause (through _request_pause) change neither the state,
\* the two events, the last notification nor any script thread, and spawn
\* nothing.
C10_NoOpWhenFullyStopped ==
    [][/\ (request_stop /\ is_fully_stopped)
            => UNCHANGED <<state, paused, scr, argv, notified, notHandled, th>>
       /\ (request_pause_unpause /\ is_fully_stopped)
            => /\ UNCHANGED <<state, paused, scr, argv, notified, notHandled>>
               /\ th' = [th EXCEPT ![Controller].pc = "rp_check"]
       /\ (_request_pause /\ is_fully_stopped)
            => /\ UNCHANGED <<state, paused, scr, argv, notified, notHandled>>
               /\ th' = [th EXCEPT ![Controller].pc = "idle"]]_vars

\* A stop or pause call has returned as a no-op in the initial state: calls
\* were made, none was a file change or a rerun, nothing was spawned.
C10_Witness ==
    /\ reqs > 0 /\ notHandled = 0 /\ ControllerIdle
    /\ state = INITIAL /\ ~scr /\ ~paused /\ notified = INITIAL
    /\ \A w \in Workers : th[w].pc = "none"

\* ---- more predicates used by the properties ----
\* Only one script thread has ever been alive at a time.
OneWorker == \A w \in Workers : w # 1 => th[w].pc = "none"
\* The controller's last request that was not a no-op has returned; it was
\* made when the state was found, and asked for the state asked.
LastRequest(found, asked) ==
    /\ ControllerIdle
    /\ th[Controller].found = found
    /\ th[Controller].new = asked
\* The controller is inside the else branch of request_rerun (lines 98-100),
\* at the comparison of line 70 or back from _set_state.
InRerunCall == /\ th[Controller].ret = "rr_clear"
               /\ th[Controller].pc \in {"ss_cmp", "rr_clear", "rr_set"}
\* The checkpoint's raise at w is caught by _run (lines 191-195), which goes
\* on to the finally with rerun set as the signal says.
Caught(w, rerun) ==
    /\ th'[w].pc = "ss_cmp" /\ th'[w].new = STOPPED /\ th'[w].ret = "after"
    /\ th'[w].rerun = rerun /\ th'[w].exc = "none"

\* C11: a request_rerun that finds the state already RERUN_REQUESTED, with
\* the state-change flag set and the paused flag clear as the first call left
\* them, changes neither the state, the flags nor the notifications; and the
\* worker's next checkpoint after such a call has returned ends the pass and
\* restarts the script (the signal is caught with rerun = True).
C11_RepeatedRerunIdempotent ==
    [][/\ (/\ ControllerStep /\ InRerunCall
           /\ th[Controller].found = RERUN_REQUESTED
           /\ state = RERUN_REQUESTED /\ scr /\ ~paused)
            => UNCHANGED <<state, scr, paused, notified, notHandled>>
       /\ \A w \in Workers :
            (/\ CpRerun(w) /\ state = RERUN_REQUESTED
             /\ LastRequest(RERUN_REQUESTED, RERUN_REQUESTED)
             /\ OneWorker /\ ~th[w].failed)
                => Caught(w, TRUE)]_vars

\* C12: a file-change callback with run-on-save enabled is the step
\* request_rerun makes when called with the current argv, and sends no
\* on_file_change_not_handled; with run-on-save disabled it sends that event
\* once and changes neither the state, the events, the notifications nor any
\* thread.
C12_FileChangeRerunOrNotify ==
    [][maybe_handle_file_changed =>
          IF run_on_save
            THEN request_rerun(argv) /\ notHandled' = notHandled
            ELSE /\ notHandled' = notHandled + 1
                 /\ UNCHANGED <<state, paused, scr, argv, notified, th>>]_vars

\* Two file changes were ignored with run-on-save disabled: two events sent,
\* nothing else changed since construction.
C12_Witness ==
    /\ ~run_on_save /\ notHandled = 2 /\ reqs = 2 /\ ControllerIdle
    /\ state = INITIAL /\ ~scr /\ ~paused /\ notified = INITIAL
    /\ \A w \in Workers : th[w].pc = "none"

\* The thread is inside _pause, past the write of PAUSED (lines 211-214).
InPause(w) == th[w].pc \in {"pss_send", "pause_wait"}

\* C13: with a single script thread whose script loads and runs without
\* failure, the state becomes PAUSED only from PAUSE_REQUESTED, and whenever
\* it is PAUSED the paused flag is set and the thread is inside _pause (it
\* executes no statement of the script).
C13_PausedMeansBlocked ==
    [][(OneWorker' /\ NoRunFailed') =>
          /\ (state' = PAUSED /\ state # PAUSED) => state = PAUSE_REQUESTED
          /\ state' = PAUSED => (paused' /\ \E w \in Workers : InPause(w)')]_vars

\* The last request, made when the state was PAUSED, asked for the state
\* asked, which is still the state; one script thread, no failed run.
AskedWhilePaused(asked) ==
    /\ LastRequest(PAUSED, asked) /\ state = asked
    /\ OneWorker /\ NoRunFailed

\* C14: once a request_stop or request_rerun made while the state was PAUSED
\* has returned, the paused flag is clear, and the worker's next checkpoint
\* raises the signal asked for where _run catches it: the run goes on to the
\* finally (STOPPED), with rerun set for a rerun and not for a stop.
C14_StopOrRerunWhilePaused ==
    [][/\ \A asked \in {STOP_REQUESTED, RERUN_REQUESTED} :
            AskedWhilePaused(asked) => ~paused
       /\ \A w \in Workers :
            /\ (CpStop(w) /\ AskedWhilePaused(STOP_REQUESTED)) => Caught(w, FALSE)
            /\ (CpRerun(w) /\ AskedWhilePaused(RERUN_REQUESTED)) => Caught(w, TRUE)]_vars

\* A step of maybe_handle_execution_control_request or of the _pause it calls.
CheckpointStep(w) ==
    \/ CpFlag(w) \/ CpStop(w) \/ CpRerun(w) \/ CpPause(w)
    \/ PauseSet(w) \/ PauseWait(w)
    \/ (SsInner(th[w]) /\ (SetStateCmp(w) \/ SetStateWrite(w) \/ SetStateSend(w)))
\* The step with which a checkpoint that found the flag set raises or returns.
CheckpointEnds(w) ==
    \/ CpStop(w) /\ state = STOP_REQUESTED
    \/ CpRerun(w) /\ state = RERUN_REQUESTED
    \/ CpPause(w) /\ state # PAUSE_REQUESTED
    \/ PauseWait(w)

C16_SignalsNeverEscape ==
    (OneWorker /\ NoRunFailed) =>
        \A w \in Workers : th[w].pc = "died" => th[w].exc \notin {"Stop", "Rerun"}

\* C17: a thread that enters _run while the state is neither INITIAL nor
\* STOPPED ends there with the RuntimeError of line 135: it changes neither
\* the state, the two events nor the notifications, no other thread is
\* touched, and it never reaches the script.
C17_AlreadyRunningFails ==
    [][\A w \in Workers :
          (RunEnter(w) /\ ~is_fully_stopped) =>
              /\ UNCHANGED <<state, scr, paused, argv, notified, notHandled>>
              /\ th'[w].pc = "died" /\ th'[w].exc = "Runtime"
              /\ th'[w].ran = <<>>
              /\ \A t \in Threads \ {w} : th'[t] = th[t]]_vars

\* A thread has ended with that RuntimeError while another one holds the
\* state RUNNING.
C17_Witness ==
    /\ state = RUNNING
    /\ \E w, v \in Workers :
          /\ th[w].pc = "died" /\ th[w].exc = "Runtime"
          /\ v # w /\ th[v].pc = "exec"

\* The number of leading statements of body that must stay first: a leading
\* docstring, then the run of imports that follows.
RECURSIVE ImportRun(_, _)
ImportRun(body, i) ==
    IF i <= Len(body) /\ body[i] = "import" THEN 1 + ImportRun(body, i + 1) ELSE 0
Leading(body) ==
    LET d == IF Len(body) > 0 /\ IsStr(body[1]) THEN 1 ELSE 0
    IN  d + ImportRun(body, d + 1)
\* The index (from 1) of the inserted import in the rewritten body.
Inserted(body) == CHOOSE i \in 1..Len(body) : body[i] = "st_import"

\* C18: in the rewritten script the inserted import comes after the leading
\* docstring and after every import of the leading run of imports: none of
\* them ends up after it.
C18_ImportAfterLeading ==
    out # <<>> => Inserted(out) > Leading(tree)

\* The last request found the state earlier, which an earlier request had
\* asked for and no checkpoint had served yet, and asked for the state later,
\* which is still the state; one script thread, no failed run.
Superseded(earlier, later) ==
    /\ LastRequest(earlier, later) /\ state = later
    /\ OneWorker /\ NoRunFailed

\* C19: the worker's checkpoint after two requests acts on the later one. A
\* stop that followed a rerun request is raised as Stop where _run catches
\* it, so the run ends in STOPPED with no restart; a rerun that followed a
\* stop request is raised as Rerun where _run catches it, so the pass ends
\* and restarts; a pause that followed either makes the worker pause.
C19_LastRequestWins ==
    [][\A w \in Workers :
          /\ (CpStop(w) /\ Superseded(RERUN_REQUESTED, STOP_REQUESTED))
                => Caught(w, FALSE)
          /\ (CpRerun(w) /\ Superseded(STOP_REQUESTED, RERUN_REQUESTED))
                => Caught(w, TRUE)
          /\ \A earlier \in {STOP_REQUESTED, RERUN_REQUESTED} :
                (CpPause(w) /\ Superseded(earlier, PAUSE_REQUESTED))
                    => th'[w].pc = "pause_set"]_vars

\* The last request resumed a pause and has returned; one script thread.
Resumed == LastRequest(PAUSED, RUNNING) /\ OneWorker

\* C20: a step of a checkpoint that reads the state RUNNING neither raises
\* nor pauses, whether or not the state-change flag is set: the tests of
\* lines 228, 230 and 232 fail in turn and the checkpoint returns to the
\* traced line. In particular, once a pause has been resumed and until the
\* next request, no checkpoint of the worker raises or pauses.
C20_RunningCheckpointIsNoOp ==
    [][\A w \in Workers :
          /\ (CpFlag(w) /\ state = RUNNING)
                => th'[w].pc \in {th[w].pc, "cp_stop"}
          /\ (CpStop(w) /\ (state = RUNNING \/ Resumed))
                => th'[w].pc = "cp_rerun"
          /\ (CpRerun(w) /\ (state = RUNNING \/ Resumed))
                => th'[w].pc = "cp_pause"
          /\ (CpPause(w) /\ (state = RUNNING \/ Resumed))
                => th'[w] = CpReturn(th[w])]_vars

\* After a resumed pause the worker is inside a new checkpoint made for the
\* script, which found the flag still set and the state RUNNING and is about
\* to fail the last test.
C20_Witness ==
    /\ Resumed /\ state = RUNNING /\ scr /\ ~paused
    /\ th[1].pc = "cp_pause" /\ th[1].cpRet = "exec"
====
